---- MODULE Spec2Model ----
(***************************************************************************)
(* BuildMixin.build of podman/domain/images_build.py as a state machine.   *)
(*                                                                         *)
(* One call of build is followed statement by statement: the two input     *)
(* checks, the parameter mapping, the volume marshalling, the packaging of *)
(* the context, the POST, the release of the archive stream and of the     *)
(* staging directory, the status check, the tee of the line iterator, the  *)
(* scan of the event lines and the final lookup or failure. After the call *)
(* has ended the caller may drain the replay log it was handed.            *)
(*                                                                         *)
(* Python values are written as follows. None is the string "None". A text *)
(* is a sequence of tokens (characters where the code looks at characters).*)
(* A dict argument is a sequence of <<key, value>> pairs in insertion      *)
(* order; params and a decoded event are functions from their keys. A      *)
(* local variable that holds None or one value (image_id, unknown) is a    *)
(* sequence of length 0 or 1.                                              *)
(***************************************************************************)
EXTENDS Integers, Sequences, FiniteSets, TLC

None == "None"
Omitted == "<omitted>"

\* ---------------------------------------------------------------- bounds
MaxLines == 3        \* longest daemon event stream drawn in SpecStream
MaxVolumes == 2      \* most entries of a volumes mapping drawn in SpecVolumes
MaxOptionsSet == 2   \* most scalar options a drawn request sets at once
MaxText == 4         \* longest stream text drawn in SpecMarker

\* ------------------------------------------------------- the signature
\* dockerfile's default value is computed once, when the module is loaded
DefaultDockerfile == ".containerfile.<random>"
DefaultLayers == "True"
DefaultOutputformat == "application/vnd.oci.image.manifest.v1+json"

\* the nullable scalar arguments of build that go to params under a key
ScalarArgs ==
  {"forcerm", "http_proxy", "network_mode", "nocache", "platform", "pull",
   "quiet", "rm", "shmsize", "squash", "tag", "target", "layers", "output",
   "outputformat"}

\* the value each scalar argument has when the caller leaves it out
ArgDefault(a) ==
  CASE a = "layers" -> DefaultLayers
    [] a = "outputformat" -> DefaultOutputformat
    [] OTHER -> None

\* a value a caller may give to each scalar argument
ArgSample(a) ==
  CASE a = "tag" -> "myimage:latest"
    [] a = "target" -> "stage1"
    [] a = "platform" -> "linux/amd64"
    [] a = "network_mode" -> "host"
    [] a = "output" -> "type=local"
    [] a = "outputformat" -> "application/vnd.docker.distribution.manifest.v2+json"
    [] a = "shmsize" -> "67108864"
    [] a = "layers" -> "False"
    [] OTHER -> "True"

LimitKeys == {"cpuperiod", "cpuquota", "cpusetcpus", "cpushares", "memory", "memswap"}

\* ------------------------------------------------------ Python helpers
RECURSIVE DictGet(_, _, _)
\* dict.get(key, default) on a dict written as a sequence of pairs
DictGet(d, key, default) ==
  IF d = <<>> THEN default
  ELSE IF d[Len(d)][1] = key THEN d[Len(d)][2]
  ELSE DictGet(SubSeq(d, 1, Len(d) - 1), key, default)

DictHas(d, key) == \E i \in 1..Len(d) : d[i][1] = key

RECURSIVE Join(_, _)
\* sep.join(items), as a sequence of tokens
Join(items, sep) ==
  IF items = <<>> THEN <<>>
  ELSE IF Len(items) = 1 THEN <<items[1]>>
  ELSE <<items[1], sep>> \o Join(Tail(items), sep)

Quoted(s) == <<"\"", s, "\"">>

RECURSIVE JsonPairs(_)
JsonPairs(items) ==
  IF items = <<>> THEN <<>>
  ELSE Quoted(items[1][1]) \o <<": ">> \o Quoted(items[1][2])
       \o (IF Len(items) = 1 THEN <<>> ELSE <<", ">> \o JsonPairs(Tail(items)))

RECURSIVE JsonItems(_)
JsonItems(items) ==
  IF items = <<>> THEN <<>>
  ELSE Quoted(items[1])
       \o (IF Len(items) = 1 THEN <<>> ELSE <<", ">> \o JsonItems(Tail(items)))

\* json.dumps of a dict of strings, and of a list of strings
JsonDumpsDict(items) == <<"{">> \o JsonPairs(items) \o <<"}">>
JsonDumpsList(items) == <<"[">> \o JsonItems(items) \o <<"]">>

\* A collection argument: none = TRUE is None, otherwise items is its content.
NoColl == [none |-> TRUE, items |-> <<>>]
Coll(items) == [none |-> FALSE, items |-> items]
\* truth value of a collection argument in "if buildargs:"
Truthy(c) == ~c.none /\ c.items # <<>>

\* --------------------------------------------------- the success marker
HexLower == {"0", "1", "2", "3", "4", "5", "6", "7", "8", "9",
             "a", "b", "c", "d", "e", "f"}

RECURSIVE HexPrefixLen(_)
\* how many characters the greedy [0-9a-f]+ takes from the start of text
HexPrefixLen(text) ==
  IF text = <<>> \/ Head(text) \notin HexLower THEN 0
  ELSE 1 + HexPrefixLen(Tail(text))

\* marker.match(text) for marker = re.compile(r"(^[0-9a-f]+)\n$"): the hex
\* run, one newline, and then $, which Python also matches just before a
\* newline that ends the text
MarkerMatch(text) ==
  LET n == HexPrefixLen(text) IN
    /\ n >= 1
    /\ Len(text) > n
    /\ text[n + 1] = "\n"
    /\ \/ Len(text) = n + 1
       \/ Len(text) = n + 2 /\ text[n + 2] = "\n"

\* match.group(1)
MarkerGroup(text) == SubSeq(text, 1, HexPrefixLen(text))

\* json.loads(line) of a line holding one JSON object: a repeated key keeps
\* its last value
JsonLoads(line) ==
  [k \in {line[i][1] : i \in 1..Len(line)} |-> DictGet(line, k, <<>>)]

\* ------------------------------------------- event lines drawn by the model
StepLine == << <<"stream", <<"s", "t", "e", "p", " ", "1", "\n">>>> >>
IdLine1 == << <<"stream", <<"a", "b", "\n">>>> >>
IdLine2 == << <<"stream", <<"c", "0", "\n">>>> >>
ErrLine1 == << <<"error", <<"no such file">>>> >>
IdLineNN == << <<"stream", <<"e", "\n", "\n">>>> >>
OtherLine == << <<"status", <<"pulling">>>> >>
BothLine == << <<"stream", <<"d", "\n">>>>, <<"error", <<"both">>>> >>

Events == {StepLine, IdLine1, IdLine2, IdLineNN, ErrLine1, OtherLine, BothLine}

RECURSIVE SeqsUpTo(_, _)
\* the sequences over S of length at most n
SeqsUpTo(S, n) ==
  IF n = 0 THEN {<<>>}
  ELSE LET shorter == SeqsUpTo(S, n - 1) IN
         shorter \cup {Append(q, x) : q \in {r \in shorter : Len(r) = n - 1}, x \in S}

Streams == SeqsUpTo(Events, MaxLines)

SampleStreams ==
  {<<>>, <<StepLine, IdLine1>>, <<StepLine, ErrLine1, IdLine1>>, <<StepLine, OtherLine>>}

\* What the daemon and the transport do to the request: post is
\* "ConnectionError" when the POST raises, else the response has this status
\* and these body lines.
Env(post, status, lines) == [post |-> post, status |-> status, lines |-> lines]

SampleEnvs ==
  {Env("ConnectionError", 200, <<>>), Env("response", 404, <<>>), Env("response", 500, <<>>)}
  \cup {Env("response", 200, l) : l \in SampleStreams}

StreamEnvs == {Env("response", 200, l) : l \in Streams}

\* the stream texts of at most MaxText characters: hex digits of both
\* cases, other characters and newlines, each as the one line of a stream
MarkerChars == {"a", "7", "F", "x", " ", "\n"}
Texts == SeqsUpTo(MarkerChars, MaxText)
TextLine(t) == << <<"stream", t>> >>
TextEnvs == {Env("response", 200, <<TextLine(t)>>) : t \in Texts}

\* a status that is no success, with a body of event lines all the same
StatusEnvs ==
  {Env("response", st, l) : st \in {403, 404, 500}, l \in {<<ErrLine1>>, <<StepLine, IdLine1>>}}

\* ------------------------------------------------ calls drawn by the model
DefaultArgs ==
  [path |-> None, fileobj |-> None, remote |-> None, custom_context |-> FALSE,
   dockerfile |-> Omitted, gzip |-> FALSE, encoding |-> FALSE, timeout |-> None,
   volumes |-> NoColl, container_limits |-> NoColl, buildargs |-> NoColl,
   cache_from |-> NoColl, extra_hosts |-> NoColl, labels |-> NoColl,
   opts |-> [a \in ScalarArgs |-> ArgDefault(a)]]

\* path: None, the empty string, a non-empty string, a pathlib.Path
Paths == {None, "", "str:ctx", "Path:ctx"}
\* fileobj: None, a text stream, a binary stream
Fileobjs == {None, "StringIO", "BytesIO"}
Remotes == {None, "", "https://host/ctx.tar"}
Dockerfiles == {Omitted, None, "MyDockerfile"}

GoodVolume == << <<"/h1", << <<"bind", "/b1">>, <<"mode", [list |-> TRUE, flags |-> <<"rw", "z">>]>> >> >> >>

\* every combination of the context sources, one volumes mapping or none
ContextArgs ==
  {[DefaultArgs EXCEPT !.path = p, !.fileobj = f, !.remote = r,
                       !.custom_context = c, !.dockerfile = d,
                       !.gzip = g, !.encoding = e, !.volumes = v] :
     p \in Paths, f \in Fileobjs, r \in Remotes, c \in BOOLEAN,
     d \in Dockerfiles, g \in BOOLEAN, e \in BOOLEAN,
     v \in {NoColl, Coll(GoodVolume)}}

\* one call per packaging rule, and one with no context source
BaseArgs ==
  {[DefaultArgs EXCEPT !.fileobj = "StringIO"],
   [DefaultArgs EXCEPT !.fileobj = "BytesIO", !.custom_context = TRUE,
                       !.dockerfile = "MyDockerfile"],
   [DefaultArgs EXCEPT !.path = "Path:ctx", !.opts = [@ EXCEPT !.tag = "myimage:latest"],
                       !.timeout = "30"],
   [DefaultArgs EXCEPT !.remote = "https://host/ctx.tar"],
   DefaultArgs}

\* the volumes mappings of at most MaxVolumes entries: each host path once,
\* bind given or not, mode left out, a list or a single string
HostNames == <<"/h1", "/h2", "/h3", "/h4">>
Hosts == {HostNames[i] : i \in 1..MaxVolumes}
Modes == {[list |-> TRUE, flags |-> <<>>], [list |-> TRUE, flags |-> <<"ro">>],
          [list |-> TRUE, flags |-> <<"rw", "z">>], [list |-> FALSE, flags |-> <<"ro">>]}
Targets ==
  {b \o m : b \in {<<>>, << <<"bind", "/b">> >>},
            m \in {<<>>} \cup {<< <<"mode", x>> >> : x \in Modes}}
VolumeMappings ==
  {v \in SeqsUpTo(Hosts \X Targets, MaxVolumes) :
     \A i, j \in 1..Len(v) : i # j => v[i][1] # v[j][1]}

VolumeArgs ==
  {[a EXCEPT !.volumes = Coll(v)] :
     a \in {[DefaultArgs EXCEPT !.remote = "https://host/ctx.tar"],
            [DefaultArgs EXCEPT !.fileobj = "StringIO", !.gzip = TRUE, !.encoding = TRUE],
            DefaultArgs},
     v \in VolumeMappings}

\* the calls that give at most MaxOptionsSet scalar options a value of their
\* own, with no limits, one limit or all six; and every limits record
OptionChoices ==
  {[a \in ScalarArgs |-> IF a \in S THEN ArgSample(a) ELSE ArgDefault(a)] :
     S \in {T \in SUBSET ScalarArgs : Cardinality(T) <= MaxOptionsSet}}
AllLimits ==
  << <<"cpuperiod", "100000">>, <<"cpuquota", "50000">>, <<"cpusetcpus", "0-3">>,
     <<"cpushares", "512">>, <<"memory", "1073741824">>, <<"memswap", "-1">> >>
\* the limits record that holds the fields S
LimitRecord(S) == LET Kept(p) == p[1] \in S IN Coll(SelectSeq(AllLimits, Kept))
ParamArgs ==
  {[DefaultArgs EXCEPT !.remote = "https://host/ctx.tar", !.opts = o, !.container_limits = l] :
     o \in OptionChoices,
     l \in {NoColl, LimitRecord({"memory"}), LimitRecord(LimitKeys)}}
  \cup {[DefaultArgs EXCEPT !.path = "Path:ctx", !.container_limits = LimitRecord(S)] :
          S \in SUBSET LimitKeys}

\* the structured options: None, empty, one item, two items
DictSamples ==
  {NoColl, Coll(<<>>), Coll(<< <<"A", "1">> >>), Coll(<< <<"A", "1">>, <<"B", "2">> >>)}
ListSamples == {NoColl, Coll(<<>>), Coll(<<"img1">>), Coll(<<"img1", "img2">>)}
StructArgs ==
  {[DefaultArgs EXCEPT !.remote = "https://host/ctx.tar", !.buildargs = b, !.cache_from = c,
                       !.extra_hosts = e, !.labels = l] :
     b \in DictSamples, c \in ListSamples, e \in DictSamples, l \in DictSamples}

\* ------------------------------------------------------------ the state
VARIABLES
  args,         \* the arguments of the call
  env,          \* what the transport and the daemon will answer
  pc,           \* the statement build is at; "returned" or "raised" at its end
  path,         \* the local path: the argument, or the TemporaryDirectory
  body,         \* the local body: "unbound", None, "BytesIO" or "tar"
  bodyClosed,   \* body.close() has run
  tmpdir,       \* the staging directory: "none", "exists" or "deleted"
  params,       \* the local params
  sent,         \* the requests handed to client.post, in order
  response,     \* the response of the POST: <<>> or <<status>>
  fetched,      \* the lines pulled from response.iter_lines(), tee's buffer
  scan_pos,     \* lines the scanning view (stream) has yielded
  replay_pos,   \* lines the replay view (report_stream) has yielded
  replayEnded,  \* the replay view has raised StopIteration
  replayed,     \* the lines the caller got from the replay view, in order
  image_id,     \* the local image_id
  unknown,      \* the local unknown
  lookups,      \* the identifiers self.get was called with, in order
  outcome       \* how the call ended

vars == <<args, env, pc, path, body, bodyClosed, tmpdir, params, sent, response,
          fetched, scan_pos, replay_pos, replayEnded, replayed, image_id, unknown,
          lookups, outcome>>

\* the local dockerfile: the argument, or the default when it is left out
dockerfile == IF args.dockerfile = Omitted THEN DefaultDockerfile ELSE args.dockerfile

EmptyDict == [k \in {} |-> None]

Running == [kind |-> "running", exc |-> None, msg |-> <<>>, msgLine |-> <<>>,
            image |-> <<>>, log |-> FALSE]

InitWith(A, E) ==
  /\ args \in A
  /\ env \in E
  /\ pc = "check_context"
  /\ path = args.path
  /\ body = "unbound"
  /\ bodyClosed = FALSE
  /\ tmpdir = "none"
  /\ params = EmptyDict
  /\ sent = <<>>
  /\ response = <<>>
  /\ fetched = <<>>
  /\ scan_pos = 0
  /\ replay_pos = 0
  /\ replayEnded = FALSE
  /\ replayed = <<>>
  /\ image_id = <<>>
  /\ unknown = <<>>
  /\ lookups = <<>>
  /\ outcome = Running

Init == InitWith(ContextArgs \cup BaseArgs, SampleEnvs)

\* ------------------------------------------------------------- raising
Raised(exc, msg) == [kind |-> "raised", exc |-> exc, msg |-> msg, msgLine |-> <<>>,
                     image |-> <<>>, log |-> FALSE]

\* raise exc(msg) out of build
Raise(exc, msg) ==
  /\ outcome' = Raised(exc, msg)
  /\ pc' = "raised"

localVars == <<path, body, bodyClosed, tmpdir, params>>
netVars == <<sent, response>>
teeVars == <<fetched, scan_pos, replay_pos, replayEnded, replayed>>
scanVars == <<image_id, unknown, lookups>>

\* ------------------------------------------------------ the input checks
\* (mutant) the test of remote is inverted
NoContextSource_RemoteInverted(a) == a.path = None /\ a.fileobj = None /\ a.remote # None

\* path is None and fileobj is None and remote is None
NoContextSource(a) == a.path = None /\ a.fileobj = None /\ a.remote = None

CheckContext ==
  /\ pc = "check_context"
  /\ IF NoContextSource(args)
     THEN Raise("TypeError", <<"Either path, fileobj or remote must be provided.">>)
     ELSE pc' = "check_encoding" /\ UNCHANGED outcome
  /\ UNCHANGED <<args, env, localVars, netVars, teeVars, scanVars>>

\* "gzip" in kwargs and "encoding" in kwargs
EncodingConflict(a) == a.gzip /\ a.encoding

CheckEncoding ==
  /\ pc = "check_encoding"
  /\ IF EncodingConflict(args)
     THEN Raise("PodmanError", <<"Custom encoding not supported when gzip enabled.">>)
     ELSE pc' = "params" /\ UNCHANGED outcome
  /\ UNCHANGED <<args, env, localVars, netVars, teeVars, scanVars>>

\* -------------------------------------------------- the parameter mapping
\* the key of params each scalar argument is stored under
ParamKey(a) ==
  CASE a = "http_proxy" -> "httpproxy"
    [] a = "network_mode" -> "networkmode"
    [] a = "quiet" -> "q"
    [] a = "tag" -> "t"
    [] OTHER -> a

ScalarKeys == {ParamKey(a) : a \in ScalarArgs} \cup {"dockerfile", "remote"}

\* (mutant) a key whose value is None is left out of the literal
ParamsLiteral_DropNone(a, df) ==
  LET val(k) == IF k = "dockerfile" THEN df
                ELSE IF k = "remote" THEN a.remote
                ELSE a.opts[CHOOSE x \in ScalarArgs : ParamKey(x) = k]
  IN [k \in {x \in ScalarKeys : val(x) # None} |-> val(k)]

\* the dict literal params = {...}: every key, whatever its value
ParamsLiteral(a, df) ==
  [k \in ScalarKeys |->
     IF k = "dockerfile" THEN df
     ELSE IF k = "remote" THEN a.remote
     ELSE a.opts[CHOOSE x \in ScalarArgs : ParamKey(x) = k]]

\* if container_limits: params[key] = container_limits.get(key), six times
LimitParams(a) ==
  IF Truthy(a.container_limits)
  THEN [k \in LimitKeys |-> DictGet(a.container_limits.items, k, None)]
  ELSE EmptyDict

\* (mutant) the options are tested with "is not None"
JsonParams_NotNone(a) ==
  (IF ~a.buildargs.none THEN "buildargs" :> JsonDumpsDict(a.buildargs.items) ELSE EmptyDict)
  @@ (IF ~a.cache_from.none THEN "cachefrom" :> JsonDumpsList(a.cache_from.items) ELSE EmptyDict)
  @@ (IF ~a.extra_hosts.none THEN "extrahosts" :> JsonDumpsDict(a.extra_hosts.items) ELSE EmptyDict)
  @@ (IF ~a.labels.none THEN "labels" :> JsonDumpsDict(a.labels.items) ELSE EmptyDict)

\* if buildargs / cache_from / extra_hosts / labels: params[key] = json.dumps(it)
JsonParams(a) ==
  (IF Truthy(a.buildargs) THEN "buildargs" :> JsonDumpsDict(a.buildargs.items) ELSE EmptyDict)
  @@ (IF Truthy(a.cache_from) THEN "cachefrom" :> JsonDumpsList(a.cache_from.items) ELSE EmptyDict)
  @@ (IF Truthy(a.extra_hosts) THEN "extrahosts" :> JsonDumpsDict(a.extra_hosts.items) ELSE EmptyDict)
  @@ (IF Truthy(a.labels) THEN "labels" :> JsonDumpsDict(a.labels.items) ELSE EmptyDict)

BuildParams ==
  /\ pc = "params"
  /\ params' = JsonParams(args) @@ LimitParams(args) @@ ParamsLiteral(args, dockerfile)
  /\ pc' = "volumes"
  /\ UNCHANGED <<args, env, path, body, bodyClosed, tmpdir, netVars, teeVars, scanVars,
                 outcome>>

\* ----------------------------------------------------------- the volumes
EmptyMode == [list |-> TRUE, flags |-> <<>>]

\* (mutant) the type of mode is not tested
VolumeFault_NoModeCheck(entry) ==
  IF DictGet(entry[2], "bind", None) = None
  THEN <<"volume ", entry[1], " 'bind' value not defined">>
  ELSE <<>>

\* the two checks of the loop body on one entry <<hostdir, target>>: the
\* message of the ValueError it raises, or <<>> when it passes
VolumeFault(entry) ==
  LET hostdir == entry[1]
      mode == DictGet(entry[2], "mode", EmptyMode)
      binddir == DictGet(entry[2], "bind", None)
  IN IF binddir = None
     THEN <<"volume ", hostdir, " 'bind' value not defined">>
     ELSE IF ~mode.list
     THEN <<"volume ", hostdir, " 'mode' value should be a list">>
     ELSE <<>>

\* (mutant) the last colon is written only before a mode that is not empty
VolumeString_NoTrailingColon(entry) ==
  LET flags == DictGet(entry[2], "mode", [list |-> TRUE, flags |-> <<>>]).flags IN
    <<entry[1], ":", DictGet(entry[2], "bind", None)>>
    \o (IF flags = <<>> THEN <<>> ELSE <<":">> \o Join(flags, ","))

\* f"{hostdir}:{target['bind']}:{mode_str}" with mode_str = ",".join(mode)
VolumeString(entry) ==
  <<entry[1], ":", DictGet(entry[2], "bind", None), ":">>
  \o Join(DictGet(entry[2], "mode", EmptyMode).flags, ",")

RECURSIVE VolumeLoop(_, _)
\* for hostdir, target in volumes.items(): the loop from entry i on, with the
\* list built so far; it ends at the first entry that raises
VolumeLoop(items, acc) ==
  IF items = <<>> THEN [msg |-> <<>>, list |-> acc]
  ELSE IF VolumeFault(Head(items)) # <<>>
  THEN [msg |-> VolumeFault(Head(items)), list |-> acc]
  ELSE VolumeLoop(Tail(items), Append(acc, VolumeString(Head(items))))

MarshalVolumes ==
  /\ pc = "volumes"
  /\ IF Truthy(args.volumes)
     THEN LET r == VolumeLoop(args.volumes.items, <<>>) IN
            /\ params' = ("volume" :> r.list) @@ params
            /\ IF r.msg # <<>>
               THEN Raise("ValueError", r.msg)
               ELSE pc' = "package" /\ UNCHANGED outcome
     ELSE pc' = "package" /\ UNCHANGED <<params, outcome>>
  /\ UNCHANGED <<args, env, path, body, bodyClosed, tmpdir, netVars, teeVars, scanVars>>

\* ------------------------------------------------- packaging the context
PathObjs == {"Path:ctx"}

\* api.prepare_containerfile(path, str(filename)): the build file's path
\* relative to the context directory
PrepareContainerfile(p, df) == df

PackOk(b, p, t, dfParam) ==
  [exc |-> None, msg |-> <<>>, body |-> b, path |-> p, tmpdir |-> t, dockerfile |-> dfParam]
PackFail(exc, msg, p, t) ==
  [exc |-> exc, msg |-> msg, body |-> "unbound", path |-> p, tmpdir |-> t, dockerfile |-> <<>>]

\* (mutant) fileobj is not tested before it is used
PackCustom_NoFileobjCheck(a, df) ==
  IF df = None
  THEN PackFail("PodmanError", <<"Custom context requires specifying the name of the Dockerfile (typically 'Dockerfile' or 'Containerfile').">>, a.path, "none")
  ELSE IF a.fileobj # "BytesIO"
  THEN PackFail("AttributeError", <<"object has no attribute 'getbuffer'">>, a.path, "none")
  ELSE PackOk("BytesIO", a.path, "none", <<>>)

\* if custom_context: two checks, then body = io.BytesIO(fileobj.getbuffer())
PackCustom(a, df) ==
  IF a.fileobj = None
  THEN PackFail("PodmanError", <<"Custom context requires fileobj to be set to a binary file-like object containing a build-directory tarball.">>, a.path, "none")
  ELSE IF df = None
  THEN PackFail("PodmanError", <<"Custom context requires specifying the name of the Dockerfile (typically 'Dockerfile' or 'Containerfile').">>, a.path, "none")
  ELSE IF a.fileobj = "StringIO"
  THEN PackFail("AttributeError", <<"'_io.StringIO' object has no attribute 'getbuffer'">>, a.path, "none")
  ELSE PackOk("BytesIO", a.path, "none", <<>>)

\* elif fileobj: stage the build file in a TemporaryDirectory and archive it.
\* Path / None raises, and so does writing bytes to the text-mode file; both
\* after the directory was made.
PackLoose(a, df) ==
  IF df = None
  THEN PackFail("TypeError", <<"unsupported operand type(s) for /">>, "TemporaryDirectory", "exists")
  ELSE IF a.fileobj = "BytesIO"
  THEN PackFail("TypeError", <<"write() argument must be str, not bytes">>, "TemporaryDirectory", "exists")
  ELSE PackOk("tar", "TemporaryDirectory", "exists", <<>>)

\* elif path: filename = path / dockerfile needs a pathlib.Path and a name
PackDirectory(a, df) ==
  IF a.path \notin PathObjs \/ df = None
  THEN PackFail("TypeError", <<"unsupported operand type(s) for /">>, a.path, "none")
  ELSE PackOk("tar", a.path, "none", <<PrepareContainerfile(a.path, df)>>)

\* (mutant) a remote context is sent with an archive of nothing
Packaging_RemoteArchive(a, df) ==
  IF a.custom_context THEN PackCustom(a, df)
  ELSE IF a.fileobj # None THEN PackLoose(a, df)
  ELSE IF a.path \notin {None, ""} THEN PackDirectory(a, df)
  ELSE IF a.remote \notin {None, ""} THEN PackOk("tar", a.path, "none", <<>>)
  ELSE PackOk("unbound", a.path, "none", <<>>)

\* the if / elif chain of lines 198-227; with no branch taken body stays unbound
Packaging(a, df) ==
  IF a.custom_context THEN PackCustom(a, df)
  ELSE IF a.fileobj # None THEN PackLoose(a, df)
  ELSE IF a.path \notin {None, ""} THEN PackDirectory(a, df)
  ELSE IF a.remote \notin {None, ""} THEN PackOk(None, a.path, "none", <<>>)
  ELSE PackOk("unbound", a.path, "none", <<>>)

Package ==
  /\ pc = "package"
  /\ LET r == Packaging(args, dockerfile) IN
       /\ path' = r.path
       /\ tmpdir' = r.tmpdir
       /\ body' = r.body
       /\ params' = IF r.dockerfile = <<>> THEN params
                    ELSE ("dockerfile" :> r.dockerfile[1]) @@ params
       /\ IF r.exc # None THEN Raise(r.exc, r.msg)
          ELSE pc' = "post" /\ UNCHANGED outcome
  /\ UNCHANGED <<args, env, bodyClosed, netVars, teeVars, scanVars>>

\* ---------------------------------------------------------------- the POST
\* the call self.client.post("/build", params=params, data=body, ...)
Request(a, ps, b) ==
  [params |-> ps, data |-> b, timeout |-> IF a.timeout # None THEN a.timeout ELSE Omitted]

\* (mutant) a request the transport failed is sent once more
Post_RetryOnce ==
  /\ pc = "post"
  /\ IF body = "unbound"
     THEN /\ Raise("UnboundLocalError", <<"body">>)
          /\ UNCHANGED netVars
     ELSE IF env.post = "ConnectionError"
     THEN /\ sent' = sent \o <<Request(args, params, body), Request(args, params, body)>>
          /\ Raise("ConnectionError", <<"transport">>)
          /\ UNCHANGED response
     ELSE /\ sent' = Append(sent, Request(args, params, body))
          /\ pc' = "close_body" /\ response' = <<env.status>> /\ UNCHANGED outcome
  /\ UNCHANGED <<args, env, localVars, teeVars, scanVars>>

Post ==
  /\ pc = "post"
  /\ IF body = "unbound"
     THEN /\ Raise("UnboundLocalError", <<"body">>)
          /\ UNCHANGED netVars
     ELSE /\ sent' = Append(sent, Request(args, params, body))
          /\ IF env.post = "ConnectionError"
             THEN Raise("ConnectionError", <<"transport">>) /\ UNCHANGED response
             ELSE pc' = "close_body" /\ response' = <<env.status>> /\ UNCHANGED outcome
  /\ UNCHANGED <<args, env, localVars, teeVars, scanVars>>

\* hasattr(body, "close")
HasClose(b) == b \in {"BytesIO", "tar"}

CloseBody ==
  /\ pc = "close_body"
  /\ bodyClosed' = (bodyClosed \/ HasClose(body))
  /\ pc' = "cleanup"
  /\ UNCHANGED <<args, env, path, body, tmpdir, params, netVars, teeVars, scanVars, outcome>>

\* hasattr(path, "cleanup")
HasCleanup(p) == p = "TemporaryDirectory"

Cleanup ==
  /\ pc = "cleanup"
  /\ tmpdir' = IF HasCleanup(path) THEN "deleted" ELSE tmpdir
  /\ pc' = "raise_for_status"
  /\ UNCHANGED <<args, env, path, body, bodyClosed, params, netVars, teeVars, scanVars,
                 outcome>>

\* response.raise_for_status(not_found=ImageNotFound): "" when it returns
StatusError(status) ==
  IF status = 404 THEN "ImageNotFound"
  ELSE IF status >= 400 THEN "APIError"
  ELSE ""

\* (mutant) the status is not looked at before the lines are read
RaiseForStatus_Skipped ==
  /\ pc = "raise_for_status"
  /\ pc' = "tee"
  /\ UNCHANGED <<args, env, localVars, netVars, teeVars, scanVars, outcome>>

RaiseForStatus ==
  /\ pc = "raise_for_status"
  /\ IF StatusError(response[1]) # ""
     THEN Raise(StatusError(response[1]), <<"status">>)
     ELSE pc' = "tee" /\ UNCHANGED outcome
  /\ UNCHANGED <<args, env, localVars, netVars, teeVars, scanVars>>

\* ------------------------------------------------- the two views of the log
\* image_id = unknown = None; report_stream, stream = itertools.tee(...)
Tee ==
  /\ pc = "tee"
  /\ image_id' = <<>>
  /\ unknown' = <<>>
  /\ scan_pos' = 0
  /\ replay_pos' = 0
  /\ pc' = "scan"
  /\ UNCHANGED <<args, env, localVars, netVars, fetched, replayEnded, replayed, lookups,
                 outcome>>

\* (mutant) a view that has to pull from the source pulls the line after the
\* one it yields as well
ViewNext_ReadAhead(pos) ==
  IF pos < Len(fetched)
  THEN [stop |-> FALSE, line |-> <<fetched[pos + 1]>>, fetched |-> fetched]
  ELSE IF Len(fetched) < Len(env.lines)
  THEN [stop |-> FALSE, line |-> <<env.lines[Len(fetched) + 1]>>,
        fetched |-> SubSeq(env.lines, 1, IF Len(fetched) + 2 <= Len(env.lines)
                                         THEN Len(fetched) + 2 ELSE Len(env.lines))]
  ELSE [stop |-> TRUE, line |-> <<>>, fetched |-> fetched]

\* (mutant) no tee: both names are the one iterator response.iter_lines()
ViewNext_Shared(pos) ==
  IF Len(fetched) < Len(env.lines)
  THEN [stop |-> FALSE, line |-> <<env.lines[Len(fetched) + 1]>>,
        fetched |-> Append(fetched, env.lines[Len(fetched) + 1])]
  ELSE [stop |-> TRUE, line |-> <<>>, fetched |-> fetched]

\* next() on a view of the tee that has yielded pos lines: the next line the
\* other view already pulled, else the next line of response.iter_lines()
ViewNext(pos) ==
  IF pos < Len(fetched)
  THEN [stop |-> FALSE, line |-> <<fetched[pos + 1]>>, fetched |-> fetched]
  ELSE IF Len(fetched) < Len(env.lines)
  THEN [stop |-> FALSE, line |-> <<env.lines[Len(fetched) + 1]>>,
        fetched |-> Append(fetched, env.lines[Len(fetched) + 1])]
  ELSE [stop |-> TRUE, line |-> <<>>, fetched |-> fetched]

\* (mutant) an event that also has a stream field is not taken as an error
IsErrorEvent_StreamFirst(result) == "error" \in DOMAIN result /\ "stream" \notin DOMAIN result

\* (mutant) the tee holds one line: a view waits until the other has taken it
TeeReady_OneSlot(pos, other) == pos - other < 1

\* next() on a view that has yielded pos lines while the other has yielded
\* other lines: the buffer of itertools.tee has no limit, so it never waits
TeeReady(pos, other) == TRUE

\* "error" in result
IsErrorEvent(result) == "error" \in DOMAIN result

\* (mutant) the first marker is kept, later ones are dropped
NextImageId_FirstWins(result, cur) ==
  IF cur = <<>> /\ "stream" \in DOMAIN result /\ MarkerMatch(result["stream"])
  THEN <<MarkerGroup(result["stream"])>>
  ELSE cur

\* image_id after the "stream" test of the loop body
NextImageId(result, cur) ==
  IF "stream" \in DOMAIN result /\ MarkerMatch(result["stream"])
  THEN <<MarkerGroup(result["stream"])>>
  ELSE cur

BuildFailure(msg, msgLine) ==
  [kind |-> "raised", exc |-> "BuildError", msg |-> msg, msgLine |-> msgLine,
   image |-> <<>>, log |-> TRUE]

\* one turn of "for line in stream", or its end
ScanLine ==
  /\ pc = "scan"
  /\ TeeReady(scan_pos, replay_pos)
  /\ LET nx == ViewNext(scan_pos) IN
       IF nx.stop
       THEN /\ pc' = "finish"
            /\ UNCHANGED <<fetched, scan_pos, image_id, unknown, outcome>>
       ELSE LET result == JsonLoads(nx.line[1]) IN
              /\ fetched' = nx.fetched
              /\ scan_pos' = scan_pos + 1
              /\ IF IsErrorEvent(result)
                 THEN /\ outcome' = BuildFailure(result["error"], <<>>)
                      /\ pc' = "raised"
                      /\ UNCHANGED <<image_id, unknown>>
                 ELSE /\ image_id' = NextImageId(result, image_id)
                      /\ unknown' = nx.line
                      /\ pc' = "scan"
                      /\ UNCHANGED outcome
  /\ UNCHANGED <<args, env, localVars, netVars, replay_pos, replayEnded, replayed, lookups>>

\* self.get(image_id): the image with this identifier
Get(id) == [id |-> id]

\* (mutant) the last line is dropped from the message
FallbackMessage_Generic(u) == [msg |-> <<"Unknown">>, msgLine |-> <<>>]

\* the value of "unknown or 'Unknown'": the text, or the line unknown holds
FallbackMessage(u) ==
  IF u = <<>> \/ u[1] = <<>> THEN [msg |-> <<"Unknown">>, msgLine |-> <<>>]
  ELSE [msg |-> <<>>, msgLine |-> u]

\* if image_id
HasImageId(id) == id # <<>> /\ id[1] # <<>>

Finish ==
  /\ pc = "finish"
  /\ IF HasImageId(image_id)
     THEN /\ lookups' = Append(lookups, image_id[1])
          /\ outcome' = [kind |-> "returned", exc |-> None, msg |-> <<>>, msgLine |-> <<>>,
                         image |-> <<Get(image_id[1])>>, log |-> TRUE]
          /\ pc' = "returned"
     ELSE /\ outcome' = BuildFailure(FallbackMessage(unknown).msg,
                                     FallbackMessage(unknown).msgLine)
          /\ pc' = "raised"
          /\ UNCHANGED lookups
  /\ UNCHANGED <<args, env, localVars, netVars, teeVars, image_id, unknown>>

\* the caller, after build has ended, takes the next line of the log it got
DrainReplay ==
  /\ pc \in {"returned", "raised"}
  /\ outcome.log
  /\ ~replayEnded
  /\ TeeReady(replay_pos, scan_pos)
  /\ LET nx == ViewNext(replay_pos) IN
       IF nx.stop
       THEN replayEnded' = TRUE /\ UNCHANGED <<fetched, replay_pos, replayed>>
       ELSE /\ fetched' = nx.fetched
            /\ replay_pos' = replay_pos + 1
            /\ replayed' = Append(replayed, nx.line[1])
            /\ UNCHANGED replayEnded
  /\ UNCHANGED <<args, env, pc, localVars, netVars, scan_pos, scanVars, outcome>>

Next ==
  \/ CheckContext
  \/ CheckEncoding
  \/ BuildParams
  \/ MarshalVolumes
  \/ Package
  \/ Post
  \/ CloseBody
  \/ Cleanup
  \/ RaiseForStatus
  \/ Tee
  \/ ScanLine
  \/ Finish
  \/ DrainReplay

\* every combination of context sources against a few transport answers
Spec == Init /\ [][Next]_vars

\* every volumes mapping up to MaxVolumes entries, with and without a
\* context source
InitVolumes ==
  \/ InitWith(VolumeArgs, {Env("response", 200, <<StepLine, IdLine1>>)})
  \/ InitWith(BaseArgs, SampleEnvs)
SpecVolumes == InitVolumes /\ [][Next]_vars

\* the scalar options and the resource limits
InitParams ==
  \/ InitWith(ParamArgs \cup StructArgs,
              {Env("ConnectionError", 200, <<>>), Env("response", 200, <<IdLine1>>)})
  \/ InitWith(BaseArgs, SampleEnvs)
SpecParams == InitParams /\ [][Next]_vars

\* the statements of build, without the caller's reading of the log
BuildStep ==
  \/ CheckContext
  \/ CheckEncoding
  \/ BuildParams
  \/ MarshalVolumes
  \/ Package
  \/ Post
  \/ CloseBody
  \/ Cleanup
  \/ RaiseForStatus
  \/ Tee
  \/ ScanLine
  \/ Finish

\* one call per packaging rule against every event stream up to MaxLines
InitStream == InitWith(BaseArgs, StreamEnvs \cup SampleEnvs \cup StatusEnvs)
SpecStream == InitStream /\ [][Next]_vars

\* one call against every one-line stream whose text has up to MaxText characters
InitMarker == InitWith({[DefaultArgs EXCEPT !.remote = "https://host/ctx.tar"]}, TextEnvs)
SpecMarker == InitMarker /\ [][Next]_vars

\* the same, where build goes on as long as it has a statement to run; the
\* caller may leave the log alone for ever
SpecStreamFair == InitStream /\ [][Next]_vars /\ WF_vars(BuildStep)

\* ======================================================================
\* The properties
\* ======================================================================
Ended == pc \in {"returned", "raised"}

\* the call got a success status, so the event lines were scanned
Scanned == Ended /\ response = <<200>>

LineHasError(line) == \E i \in 1..Len(line) : line[i][1] = "error"
LineIsMarker(line) == DictHas(line, "stream") /\ MarkerMatch(DictGet(line, "stream", <<>>))
StreamHasError(ls) == \E i \in 1..Len(ls) : LineHasError(ls[i])
StreamHasMarker(ls) == \E i \in 1..Len(ls) : LineIsMarker(ls[i])
FirstError(ls) ==
  ls[CHOOSE i \in 1..Len(ls) : LineHasError(ls[i]) /\ \A j \in 1..(i - 1) : ~LineHasError(ls[j])]
LastMarker(ls) ==
  ls[CHOOSE i \in 1..Len(ls) : LineIsMarker(ls[i]) /\ \A j \in (i + 1)..Len(ls) : ~LineIsMarker(ls[j])]

\* C1: when build ends by returning, by a build failure, by a status error
\* or by a transport error of the POST, an archive stream it made is closed
\* and a staging directory it made is deleted.
C1_CleanupOnEveryExit ==
  (Ended /\ outcome.exc \in {None, "BuildError", "ImageNotFound", "APIError", "ConnectionError"})
    => /\ (HasClose(body) => bodyClosed)
       /\ tmpdir # "exists"

\* C2: a stream with an error event never lets build return; build raises
\* BuildError with the error field of the first error event, the scan never
\* goes past that event, and the attached log drains to the whole stream.
C2_FirstErrorEventFails ==
  StreamHasError(env.lines) =>
    /\ pc # "returned"
    /\ pc \in {"scan", "finish"} => ~StreamHasError(SubSeq(fetched, 1, scan_pos))
    /\ Scanned => /\ outcome.exc = "BuildError"
                  /\ outcome.msg = DictGet(FirstError(env.lines), "error", <<>>)
                  /\ outcome.msgLine = <<>>
                  /\ outcome.log
    /\ replayEnded => replayed = env.lines

C2_Witness ==
  /\ pc = "raised"
  /\ replayEnded
  /\ Len(env.lines) = 3
  /\ ~LineHasError(env.lines[1])
  /\ LineHasError(env.lines[2])
  /\ LineIsMarker(env.lines[3])
  /\ outcome.msg = <<"no such file">>
  /\ replayed = env.lines

\* C3: with no error event and at least one marker line build scans the
\* whole stream, looks up once the identifier of the last marker line and
\* returns that image; with an error event or no marker it looks up nothing.
C3_LastMarkerLookedUp ==
  /\ Len(lookups) <= 1
  /\ (StreamHasError(env.lines) \/ ~StreamHasMarker(env.lines)) => lookups = <<>>
  /\ (Scanned /\ ~StreamHasError(env.lines) /\ StreamHasMarker(env.lines)) =>
       /\ pc = "returned"
       /\ scan_pos = Len(env.lines)
       /\ lookups = <<MarkerGroup(DictGet(LastMarker(env.lines), "stream", <<>>))>>
       /\ outcome.image = <<Get(lookups[1])>>

C3_Witness ==
  /\ pc = "returned"
  /\ env.lines = <<IdLine1, IdLine2, StepLine>>
  /\ lookups = <<<<"c", "0">>>>

\* C4: a stream with neither an error event nor a marker never lets build
\* return: build raises BuildError with the last line of the stream as its
\* message, or "Unknown" for a stream of no lines, and the attached log
\* drains to exactly the lines of the stream.
C4_NoSignalFails ==
  (~StreamHasError(env.lines) /\ ~StreamHasMarker(env.lines)) =>
    /\ pc # "returned"
    /\ Scanned =>
         /\ outcome.exc = "BuildError"
         /\ outcome.log
         /\ scan_pos = Len(env.lines)
         /\ IF env.lines = <<>>
            THEN outcome.msg = <<"Unknown">> /\ outcome.msgLine = <<>>
            ELSE outcome.msg = <<>> /\ outcome.msgLine = <<env.lines[Len(env.lines)]>>
    /\ replayEnded => replayed = env.lines

C4_Witness ==
  /\ pc = "raised"
  /\ replayEnded
  /\ env.lines = <<StepLine, OtherLine>>
  /\ outcome.msgLine = <<OtherLine>>
  /\ replayed = env.lines

\* C5: after build has returned, the replay log starts at the first line and
\* gives the caller the lines of the stream once each, in order, out of the
\* one request that was made.
C5_ReplayFromStart ==
  pc = "returned" =>
    /\ Len(sent) = 1
    /\ replay_pos <= Len(env.lines)
    /\ replayed = SubSeq(env.lines, 1, replay_pos)
    /\ replayEnded => replayed = env.lines

C5_Witness ==
  /\ pc = "returned"
  /\ replayEnded
  /\ env.lines = <<StepLine, IdLine1>>
  /\ replayed = <<StepLine, IdLine1>>
  /\ lookups = <<<<"a", "b">>>>

\* the errors build raises for a call it rejects on its own
ConfigErrors == {"TypeError", "PodmanError", "ValueError"}

\* C6: with path, fileobj and remote all None build raises TypeError at its
\* first statement and hands nothing to the transport, whatever else is given.
C6_NoSourceNoRequest ==
  (args.path = None /\ args.fileobj = None /\ args.remote = None) =>
    /\ sent = <<>>
    /\ pc \in {"check_context", "raised"}
    /\ pc = "raised" => outcome.exc = "TypeError"

C6_Witness ==
  /\ pc = "raised"
  /\ args.path = None /\ args.fileobj = None /\ args.remote = None
  /\ args.custom_context /\ args.gzip /\ args.encoding
  /\ args.dockerfile = "MyDockerfile"
  /\ outcome.exc = "TypeError"
  /\ sent = <<>>

\* C7: custom context with a binary stream but no build-file name given is
\* rejected by build itself, with nothing handed to the transport.
C7_CustomContextNeedsName ==
  (args.custom_context /\ args.fileobj = "BytesIO" /\ args.dockerfile \in {Omitted, None}) =>
    /\ sent = <<>>
    /\ Ended => outcome.kind = "raised" /\ outcome.exc \in ConfigErrors

\* C8: custom context without fileobj is rejected by build itself, with
\* nothing handed to the transport and no archive made, also when a path or
\* a remote URI is given; past the two earlier checks the error is the
\* PodmanError of the custom-context rule.
C8_CustomContextNeedsFileobj ==
  (args.custom_context /\ args.fileobj = None) =>
    /\ sent = <<>>
    /\ body = "unbound"
    /\ tmpdir = "none"
    /\ Ended =>
         /\ outcome.kind = "raised"
         /\ outcome.exc \in ConfigErrors
         /\ ((args.path # None \/ args.remote # None) /\ ~(args.gzip /\ args.encoding)
             /\ outcome.exc # "ValueError") => outcome.exc = "PodmanError"

C8_Witness ==
  /\ pc = "raised"
  /\ args.custom_context /\ args.fileobj = None
  /\ args.path = "Path:ctx" /\ args.remote = "https://host/ctx.tar"
  /\ ~args.gzip
  /\ outcome.exc = "PodmanError"
  /\ sent = <<>>

\* an entry with no bind path, or with a mode that is not a list
Malformed(entry) ==
  \/ ~DictHas(entry[2], "bind")
  \/ DictHas(entry[2], "mode") /\ ~DictGet(entry[2], "mode", EmptyMode).list
HasMalformed(v) == Truthy(v) /\ \E i \in 1..Len(v.items) : Malformed(v.items[i])
FirstMalformed(v) ==
  v.items[CHOOSE i \in 1..Len(v.items) :
            Malformed(v.items[i]) /\ \A j \in 1..(i - 1) : ~Malformed(v.items[j])]
Names(msg, host) == \E i \in 1..Len(msg) : msg[i] = host

DictText(items) ==
  IF Len(items) = 1
  THEN <<"{", "\"", "A", "\"", ": ", "\"", "1", "\"", "}">>
  ELSE <<"{", "\"", "A", "\"", ": ", "\"", "1", "\"", ", ",
         "\"", "B", "\"", ": ", "\"", "2", "\"", "}">>
ListText(items) ==
  IF Len(items) = 1
  THEN <<"[", "\"", "img1", "\"", "]">>
  ELSE <<"[", "\"", "img1", "\"", ", ", "\"", "img2", "\"", "]">>
NonEmpty(c) == ~c.none /\ Len(c.items) > 0

\* C11: in the mapping handed to the transport buildargs, cachefrom,
\* extrahosts and labels are each present exactly when the caller gave a
\* non-empty collection, and then hold its JSON text as one string.
C11_StructuredOptionsAsJson ==
  \A i \in 1..Len(sent) :
    LET ps == sent[i].params IN
      /\ ("buildargs" \in DOMAIN ps) <=> NonEmpty(args.buildargs)
      /\ ("cachefrom" \in DOMAIN ps) <=> NonEmpty(args.cache_from)
      /\ ("extrahosts" \in DOMAIN ps) <=> NonEmpty(args.extra_hosts)
      /\ ("labels" \in DOMAIN ps) <=> NonEmpty(args.labels)
      /\ NonEmpty(args.buildargs) => ps["buildargs"] = DictText(args.buildargs.items)
      /\ NonEmpty(args.cache_from) => ps["cachefrom"] = ListText(args.cache_from.items)
      /\ NonEmpty(args.extra_hosts) => ps["extrahosts"] = DictText(args.extra_hosts.items)
      /\ NonEmpty(args.labels) => ps["labels"] = DictText(args.labels.items)

C11_Witness ==
  /\ Len(sent) = 1
  /\ args.buildargs = Coll(<< <<"A", "1">> >>)
  /\ args.cache_from = Coll(<<>>)
  /\ args.labels = Coll(<< <<"A", "1">>, <<"B", "2">> >>)
  /\ sent[1].params["buildargs"] = <<"{", "\"", "A", "\"", ": ", "\"", "1", "\"", "}">>
  /\ "cachefrom" \notin DOMAIN sent[1].params

\* the mode flags of an entry, none when it has no mode
FlagsOf(entry) ==
  IF DictHas(entry[2], "mode") THEN DictGet(entry[2], "mode", EmptyMode).flags ELSE <<>>

\* text is hostPath ":" bindPath ":" and the flags with a comma between them
IsVolumeText(text, entry) ==
  LET flags == FlagsOf(entry) IN
    /\ Len(text) = 4 + (IF flags = <<>> THEN 0 ELSE 2 * Len(flags) - 1)
    /\ text[1] = entry[1]
    /\ text[2] = ":"
    /\ text[3] = DictGet(entry[2], "bind", None)
    /\ text[4] = ":"
    /\ \A k \in 1..Len(flags) :
         /\ text[3 + 2 * k] = flags[k]
         /\ k < Len(flags) => text[4 + 2 * k] = ","

\* C12: for a well-formed, non-empty volumes mapping the volume parameter
\* handed to the transport is a list with one text per host path, in the
\* mapping's order, each hostPath:bindPath:flags with the flags joined by
\* commas; no mode or an empty mode gives hostPath:bindPath: .
C12_VolumeTexts ==
  (Truthy(args.volumes) /\ ~HasMalformed(args.volumes)) =>
    \A i \in 1..Len(sent) :
      /\ "volume" \in DOMAIN sent[i].params
      /\ Len(sent[i].params["volume"]) = Len(args.volumes.items)
      /\ \A k \in 1..Len(args.volumes.items) :
           IsVolumeText(sent[i].params["volume"][k], args.volumes.items[k])

C12_Witness ==
  /\ Len(sent) = 1
  /\ Len(args.volumes.items) = 2
  /\ sent[1].params["volume"] = << <<"/h2", ":", "/b", ":">>,
                                   <<"/h1", ":", "/b", ":", "rw", ",", "z">> >>
  /\ ~DictHas(args.volumes.items[1][2], "mode")

\* C13: after a response whose status is no success build reads no event
\* line and looks up no image; it raises ImageNotFound for 404 and APIError
\* for any other such status, never BuildError.
C13_StatusErrorBeforeScan ==
  (response # <<>> /\ response[1] >= 400) =>
    /\ fetched = <<>>
    /\ scan_pos = 0
    /\ lookups = <<>>
    /\ pc \in {"close_body", "cleanup", "raise_for_status", "raised"}
    /\ pc = "raised" =>
         /\ outcome.exc = (IF response[1] = 404 THEN "ImageNotFound" ELSE "APIError")
         /\ ~outcome.log

C13_Witness ==
  /\ pc = "raised"
  /\ response = <<404>>
  /\ env.lines = <<StepLine, IdLine1>>
  /\ outcome.exc = "ImageNotFound"
  /\ fetched = <<>>

FirstErrorIndex(ls) ==
  CHOOSE i \in 1..Len(ls) : LineHasError(ls[i]) /\ \A j \in 1..(i - 1) : ~LineHasError(ls[j])

\* C14: with an error event in the stream the scanning view never goes past
\* the first one and no image is looked up, whatever markers stand before or
\* after it; when build raises, the scanning view has yielded, and the
\* transport has been asked for, exactly the lines up to that event.
C14_FailsAtFirstError ==
  StreamHasError(env.lines) =>
    /\ scan_pos <= FirstErrorIndex(env.lines)
    /\ lookups = <<>>
    /\ pc \notin {"returned", "raised"} => Len(fetched) = scan_pos
    /\ (pc = "raised" /\ response = <<200>>) =>
         /\ outcome.exc = "BuildError"
         /\ scan_pos = FirstErrorIndex(env.lines)
         /\ replay_pos = 0 => Len(fetched) = FirstErrorIndex(env.lines)

C14_Witness ==
  /\ pc = "raised"
  /\ replay_pos = 0
  /\ env.lines = <<IdLine1, ErrLine1, IdLine2>>
  /\ Len(fetched) = 2
  /\ scan_pos = 2
  /\ outcome.exc = "BuildError"

\* C15 as stated: the scanning view has always yielded at least as many
\* lines as the replay view, during the call and while the caller drains the
\* log, and both yield the lines in the daemon's order.
C15_ScanAtOrAhead ==
  /\ replay_pos <= scan_pos
  /\ replayed = SubSeq(env.lines, 1, replay_pos)
  /\ fetched = SubSeq(env.lines, 1, Len(fetched))

\* C15 as amended: both views yield the lines in the daemon's order, and the
\* scanning view has yielded at least as many lines as the replay view,
\* except after a build failure raised at an error event: the scan stopped
\* at the first error event, and the replay view the caller drains goes on
\* past it.
C15_ScanAheadUntilError ==
  /\ fetched = SubSeq(env.lines, 1, Len(fetched))
  /\ scan_pos <= Len(fetched)
  /\ replay_pos <= Len(fetched)
  /\ replayed = SubSeq(env.lines, 1, replay_pos)
  /\ (pc \in {"scan", "finish"} /\ scan_pos > 0) => unknown = <<env.lines[scan_pos]>>
  /\ pc \notin {"returned", "raised"} => replay_pos = 0
  /\ replay_pos > scan_pos =>
       /\ pc = "raised"
       /\ outcome.exc = "BuildError"
       /\ StreamHasError(env.lines)
       /\ scan_pos = FirstErrorIndex(env.lines)

C15_Witness ==
  /\ pc = "returned"
  /\ Len(env.lines) = 3
  /\ scan_pos = 3
  /\ replay_pos = 2
  /\ replayed = SubSeq(env.lines, 1, 2)

\* C16: build comes to its end while the replay view has yielded nothing,
\* whatever the stream; after that the caller can still take the log, and
\* once drained it holds every line of the stream.
C16_ScanNeverWaits ==
  /\ <>(Ended /\ replay_pos = 0)
  /\ []((Ended /\ outcome.log /\ ~replayEnded) => ENABLED DrainReplay)
  /\ []((replayEnded /\ outcome.log) => replayed = env.lines)

C16_Witness ==
  /\ pc = "returned"
  /\ Len(env.lines) = 3
  /\ scan_pos = 3
  /\ replay_pos = 0
  /\ ~replayEnded

\* one or more of 0-9a-f, then one newline, and nothing else
StrictMarker(t) ==
  /\ Len(t) >= 2
  /\ t[Len(t)] = "\n"
  /\ \A i \in 1..(Len(t) - 1) : t[i] \in HexLower

\* C17: after the scan of a one-line stream image_id is set exactly when the
\* stream text is hex digits 0-9a-f followed by a single newline, and then it
\* is those digits.
C17_MarkerIsHexAndOneNewline ==
  (pc = "finish" /\ Len(env.lines) = 1 /\ DictHas(env.lines[1], "stream")) =>
    LET t == DictGet(env.lines[1], "stream", <<>>) IN
      /\ image_id # <<>> <=> StrictMarker(t)
      /\ image_id # <<>> => image_id[1] = SubSeq(t, 1, Len(t) - 1)

\* the only context source of the call is a remote URI
RemoteOnly ==
  /\ args.path = None /\ args.fileobj = None /\ ~args.custom_context
  /\ args.remote \notin {None, ""}

\* C18: a build whose only context source is a remote URI makes no archive
\* and no staging directory, hands the transport no request body, and
\* carries the URI, and a build-file name if given, in the parameters.
C18_RemoteHasNoBody ==
  RemoteOnly =>
    /\ tmpdir = "none"
    /\ ~bodyClosed
    /\ path = None
    /\ body \in {"unbound", None}
    /\ pc \in {"post", "close_body", "cleanup", "raise_for_status", "tee", "scan", "finish"}
         => body = None
    /\ \A i \in 1..Len(sent) :
         /\ sent[i].data = None
         /\ sent[i].params["remote"] = args.remote
         /\ sent[i].params["dockerfile"] = dockerfile
    /\ (Ended /\ ~(args.gzip /\ args.encoding)) => Len(sent) = 1

C18_Witness ==
  /\ RemoteOnly
  /\ pc = "returned"
  /\ args.dockerfile = "MyDockerfile"
  /\ Len(sent) = 1
  /\ sent[1].data = None
  /\ sent[1].params["remote"] = "https://host/ctx.tar"
  /\ sent[1].params["dockerfile"] = "MyDockerfile"

\* the errors build raises before it reaches the POST: the three it raises
\* itself and those its statements raise on the caller's values
PreRequestErrors == ConfigErrors \cup {"AttributeError", "UnboundLocalError"}

\* the errors of the request itself: the transport's and the daemon's status
RequestErrors == {"ConnectionError", "ImageNotFound", "APIError"}

\* C19: a call of build sends at most one request: none when it ends with
\* an error raised on its inputs, exactly one in every other ending; an
\* error of the transport or of the daemon's status ends the call as that
\* error, with the one request and no second one.
C19_AtMostOneRequest ==
  /\ Len(sent) <= 1
  /\ Ended =>
       (Len(sent) = 0 <=> (pc = "raised" /\ outcome.exc \in PreRequestErrors))
  /\ (Len(sent) = 1 /\ env.post = "ConnectionError") =>
       (pc = "raised" /\ outcome.exc = "ConnectionError")
  /\ (Ended /\ Len(sent) = 1 /\ env.post # "ConnectionError"
        /\ StatusError(env.status) # "") =>
       (pc = "raised" /\ outcome.exc = StatusError(env.status))
  /\ (pc = "raised" /\ outcome.exc \in RequestErrors) =>
       (Len(sent) = 1 /\ fetched = <<>> /\ lookups = <<>>)

C19_Witness ==
  /\ pc = "raised"
  /\ outcome.exc = "ConnectionError"
  /\ Len(sent) = 1

\* C20: a call that passes the context-source check and the validations
\* takes exactly one packaging branch, so body is bound, to an archive or to
\* None, when the POST statement is reached, and build never ends with
\* body unbound; empty path and remote strings included.
C20_BodyBoundAtPost ==
  /\ pc = "post" => body \in {None, "BytesIO", "tar"}
  /\ Ended => ~(pc = "raised" /\ outcome.exc = "UnboundLocalError")

====
